---------------------------- MODULE Spec2Model ----------------------------
(***************************************************************************)
(* Model of the CVE dashboard frontend:                                    *)
(*   - the CVE detail page (app/cve/[id]/page.tsx): the load effect that   *)
(*     joins the basic-info and scores requests, assembles the view model  *)
(*     and then asks for the AI summary, guarded by the `active` flag;     *)
(*   - the view-model assembly as a pure function of the two responses;    *)
(*   - the search component (components/search-section.tsx).               *)
(*                                                                         *)
(* JavaScript values are tagged records: undefined, null, numbers (field   *)
(* n) and strings (field s, a sequence of one-character strings, so that   *)
(* trim, toLowerCase and includes are computed and not assumed).           *)
(***************************************************************************)
EXTENDS Integers, Sequences, FiniteSets, TLC

VARIABLES
  \* ---- CVEDetailPage ----
  cveId,        \* params.id of the current render
  mounted,      \* the component instance exists
  cveData,      \* useState<CveViewModel | null>(null)
  aiSummary,    \* useState<string>("")
  loading,      \* useState<boolean>(true)
  error,        \* useState<string | null>(null)
  loads,        \* one record per run of the effect: its closure (`active`),
                \* its requests and the position of load() in its body
  \* ---- view-model assembly as a function ----
  basicIn, scoresIn, viewOut,
  \* ---- SearchSection ----
  mode, searchQuery, searchResults, showResults,
  route,        \* what router.push was last given (the home view before)
  lastEvent,    \* the UI event handled last
  issued        \* history: for one query (probe), the result sets handleSearch
                \* computed for it under each mode (seen), and in which orders
                \* of modes it was issued again (orders)

detailVars == <<cveId, mounted, cveData, aiSummary, loading, error, loads>>
assembleVars == <<basicIn, scoresIn, viewOut>>
searchVars == <<mode, searchQuery, searchResults, showResults, route, lastEvent, issued>>
vars == <<detailVars, assembleVars, searchVars>>

---------------------------------------------------------------------------
\* JavaScript values

Undefined == [t |-> "undefined"]
Null == [t |-> "null"]
Num(k) == [t |-> "number", n |-> k]
Str(chars) == [t |-> "string", s |-> chars]

Coalesce_undefinedOnly(a, b) == IF a.t = "undefined" THEN b ELSE a

\* a ?? b
Coalesce(a, b) == IF a.t \in {"undefined", "null"} THEN b ELSE a

\* the characters String.prototype.trim strips, as far as the inputs use them
WhiteSpace == {" ", "\t", "\n"}

RECURSIVE TrimStart(_)
TrimStart(chars) ==
  IF chars # <<>> /\ Head(chars) \in WhiteSpace THEN TrimStart(Tail(chars)) ELSE chars

RECURSIVE TrimEnd(_)
TrimEnd(chars) ==
  IF chars # <<>> /\ chars[Len(chars)] \in WhiteSpace
    THEN TrimEnd(SubSeq(chars, 1, Len(chars) - 1))
    ELSE chars

\* String.prototype.trim
Trim(chars) == TrimEnd(TrimStart(chars))

\* truthiness of a value that is undefined, null or a string
Truthy(v) == v.t = "string" /\ v.s # <<>>

---------------------------------------------------------------------------
\* View-model assembly (page.tsx, load, after the join)

\* "(요약 없음)", the literal shown for a missing summary
NoSummaryPlaceholder == <<"(", "n", "o", " ", "s", "u", "m", "m", "a", "r", "y", ")">>

\* scores.cvss?.base
cvssBaseOf(scores) == IF scores.cvss.t = "object" THEN scores.cvss.base ELSE Undefined

titleOf(basic) ==
  IF Truthy(basic.summary) /\ Len(Trim(basic.summary.s)) > 0
    THEN basic.summary
    ELSE Str(NoSummaryPlaceholder)

buildViewModel(basic, scores) ==
  [ t |-> "object",
    id |-> basic.cve,
    title |-> titleOf(basic),
    status |-> Str(<<"A", "c", "t", "i", "v", "e">>),
    publishedDate |-> Undefined,
    severity |-> Undefined,
    cvssScore |-> Coalesce(cvssBaseOf(scores), Num(0)),
    epssScore |-> Coalesce(scores.epss, Num(0)),
    kveScore |-> Coalesce(scores.kve, Num(0)),
    activityScore |-> Coalesce(scores.activity, Num(0)) ]

---------------------------------------------------------------------------
\* CVEDetailPage: the load effect (page.tsx, useEffect on [cveId])

MaxLoads == 2

IdA == <<"A">>
IdB == <<"B">>
Ids == {IdA, IdB}

\* "CVE 상세 정보를 불러오는 중 오류가 발생했습니다."
LoadErrorMessage == <<"l", "o", "a", "d", " ", "e", "r", "r", "o", "r">>

\* What a fetch can end with: the promise rejects (network failure), or a
\* response arrives with a status and a body that res.json() parses or not.
ParseError == [t |-> "syntaxerror"]
Statuses == {200, 404, 500}
Responses(bodies) ==
  {[kind |-> "reject"]} \cup
  {[kind |-> "response", status |-> st, json |-> j] :
      st \in Statuses, j \in bodies \cup {ParseError}}

\* res.ok
ok(resp) == resp.status >= 200 /\ resp.status <= 299

Pending == [st |-> "pending", body |-> Undefined]
Failed == [st |-> "failed", body |-> Undefined]
Fulfilled(body) == [st |-> "ok", body |-> body]

\* lib/api.ts: how the promise apiGet returns settles, given what the fetch
\* ended with
apiGet(resp) ==
  IF resp.kind = "reject" THEN Failed
  ELSE IF ~ok(resp) THEN Failed
  ELSE IF resp.json = ParseError THEN Failed
  ELSE Fulfilled(resp.json)

\* bodies the backend may answer with for an identifier
BasicBodies(id) ==
  { [cve |-> Str(id), summary |-> sm] : sm \in {Undefined, Str(<<"s", id[1]>>)} }

ScoresBodies(id) ==
  { [cve |-> Str(id), overall_score |-> Num(1), cvss |-> cv,
     epss |-> Null, kve |-> Undefined, activity |-> Num(1)] :
       cv \in {Undefined, [t |-> "object", base |-> Num(2)]} }

AiText(id) == <<"a", "i", id[1]>>
AiBodies(id) == { [ai_summary |-> a] : a \in {Undefined, Str(AiText(id))} }

newLoad_aiAtStart(id) ==
  [id |-> id, active |-> TRUE, pc |-> "join",
   basic |-> Pending, scores |-> Pending, ai |-> "pending"]

\* the closure of one run of the effect, load() having run to its first
\* await: both apiGet calls are in flight, the AI summary is not asked for
newLoad(id) ==
  [id |-> id, active |-> TRUE, pc |-> "join",
   basic |-> Pending, scores |-> Pending, ai |-> "unsent"]

DetailInit ==
  /\ cveId \in Ids
  /\ mounted = TRUE
  /\ cveData = Null
  /\ aiSummary = Str(<<>>)
  /\ loading = TRUE
  /\ error = Null
  /\ loads = <<>>

\* The effect of a render with identifier id: the cleanup of the previous
\* run (active = false), then, unless id is empty, load() up to its first
\* await. The first run is for the identifier the page was opened with;
\* later runs happen only when the identifier changed.
useEffect(id) ==
  /\ mounted
  /\ Len(loads) < MaxLoads
  /\ IF loads = <<>> THEN id = cveId ELSE id # cveId
  /\ cveId' = id
  /\ LET cleaned == [l \in DOMAIN loads |-> [loads[l] EXCEPT !.active = FALSE]]
     IN IF id = <<>>
          THEN /\ loads' = cleaned
               /\ UNCHANGED <<loading, error>>
          ELSE /\ loads' = Append(cleaned, newLoad(id))
               /\ loading' = TRUE
               /\ error' = Null
  /\ UNCHANGED <<mounted, cveData, aiSummary>>

\* navigation away: the cleanup of the last run, and the instance is gone
unmount ==
  /\ mounted
  /\ loads # <<>>
  /\ mounted' = FALSE
  /\ loads' = [l \in DOMAIN loads |-> [loads[l] EXCEPT !.active = FALSE]]
  /\ UNCHANGED <<cveId, cveData, aiSummary, loading, error>>

\* apiGet(`/api/v1/cve/${cveId}/basic`) settles
basicSettles(l, resp) ==
  /\ loads[l].basic.st = "pending"
  /\ loads' = [loads EXCEPT ![l].basic = apiGet(resp)]
  /\ UNCHANGED <<cveId, mounted, cveData, aiSummary, loading, error>>

\* apiGet(`/api/v1/cve/${cveId}/scores?window=7d`) settles
scoresSettles(l, resp) ==
  /\ loads[l].scores.st = "pending"
  /\ loads' = [loads EXCEPT ![l].scores = apiGet(resp)]
  /\ UNCHANGED <<cveId, mounted, cveData, aiSummary, loading, error>>

\* Promise.all fulfilled: load() resumes after the await of the join
joinResolved_noActiveCheck(l) ==
  /\ loads[l].pc = "join"
  /\ loads[l].basic.st = "ok" /\ loads[l].scores.st = "ok"
  /\ cveData' = buildViewModel(loads[l].basic.body, loads[l].scores.body)
  /\ loads' = [loads EXCEPT ![l].pc = "ai", ![l].ai = "pending"]
  /\ UNCHANGED <<cveId, mounted, aiSummary, loading, error>>

joinResolved_either(l) ==
  /\ loads[l].pc = "join"
  /\ loads[l].basic.st = "ok"
  /\ loads[l].scores.st \in {"ok", "pending"}
  /\ IF ~loads[l].active
       THEN /\ loads' = [loads EXCEPT ![l].pc = "done"]
            /\ UNCHANGED cveData
       ELSE /\ cveData' = buildViewModel(
                   loads[l].basic.body,
                   IF loads[l].scores.st = "ok" THEN loads[l].scores.body
                   ELSE [cve |-> Undefined, overall_score |-> Undefined, cvss |-> Undefined,
                         epss |-> Undefined, kve |-> Undefined, activity |-> Undefined])
            /\ loads' = [loads EXCEPT ![l].pc = "ai", ![l].ai = "pending"]
  /\ UNCHANGED <<cveId, mounted, aiSummary, loading, error>>

joinResolved_loadingOff(l) ==
  /\ loads[l].pc = "join"
  /\ loads[l].basic.st = "ok" /\ loads[l].scores.st = "ok"
  /\ IF ~loads[l].active
       THEN /\ loads' = [loads EXCEPT ![l].pc = "done"]
            /\ UNCHANGED <<cveData, loading>>
       ELSE /\ cveData' = buildViewModel(loads[l].basic.body, loads[l].scores.body)
            /\ loading' = FALSE
            /\ loads' = [loads EXCEPT ![l].pc = "ai", ![l].ai = "pending"]
  /\ UNCHANGED <<cveId, mounted, aiSummary, error>>

joinResolved(l) ==
  /\ loads[l].pc = "join"
  /\ loads[l].basic.st = "ok" /\ loads[l].scores.st = "ok"
  /\ IF ~loads[l].active
       THEN \* return; finally: active is false, nothing is set
            /\ loads' = [loads EXCEPT ![l].pc = "done"]
            /\ UNCHANGED cveData
       ELSE \* setCveData, then the AI summary is asked for
            /\ cveData' = buildViewModel(loads[l].basic.body, loads[l].scores.body)
            /\ loads' = [loads EXCEPT ![l].pc = "ai", ![l].ai = "pending"]
  /\ UNCHANGED <<cveId, mounted, aiSummary, loading, error>>

\* Promise.all rejected by the first of the two to fail: catch, finally
joinRejected(l) ==
  /\ loads[l].pc = "join"
  /\ loads[l].basic.st = "failed" \/ loads[l].scores.st = "failed"
  /\ loads' = [loads EXCEPT ![l].pc = "done"]
  /\ error' = IF loads[l].active THEN Str(LoadErrorMessage) ELSE error
  /\ loading' = IF loads[l].active THEN FALSE ELSE loading
  /\ UNCHANGED <<cveId, mounted, cveData, aiSummary>>

\* fetch(`/api/v1/cve/${cveId}/ai-summary?window=7d`) settles: it rejects
\* (catch), answers non-2xx (else branch) or answers 2xx (res.json() is
\* awaited)
aiFetchSettles_keepSummary(l, resp) ==
  /\ loads[l].pc = "ai"
  /\ IF resp.kind = "response" /\ ok(resp)
       THEN /\ loads' = [loads EXCEPT ![l].pc = "aijson", ![l].ai = "body"]
            /\ UNCHANGED <<aiSummary, loading>>
       ELSE /\ loads' = [loads EXCEPT ![l].pc = "done", ![l].ai = "failed"]
            /\ UNCHANGED aiSummary
            /\ loading' = IF loads[l].active THEN FALSE ELSE loading
  /\ UNCHANGED <<cveId, mounted, cveData, error>>

aiFetchSettles(l, resp) ==
  /\ loads[l].pc = "ai"
  /\ IF resp.kind = "response" /\ ok(resp)
       THEN /\ loads' = [loads EXCEPT ![l].pc = "aijson", ![l].ai = "body"]
            /\ UNCHANGED <<aiSummary, loading>>
       ELSE /\ loads' = [loads EXCEPT ![l].pc = "done", ![l].ai = "failed"]
            /\ aiSummary' = IF loads[l].active THEN Str(<<>>) ELSE aiSummary
            /\ loading' = IF loads[l].active THEN FALSE ELSE loading
  /\ UNCHANGED <<cveId, mounted, cveData, error>>

\* res.json() of the AI summary settles: it rejects (catch) or gives the body
aiJsonSettles(l, json) ==
  /\ loads[l].pc = "aijson"
  /\ loads' = [loads EXCEPT ![l].pc = "done",
                            ![l].ai = IF json = ParseError THEN "failed" ELSE "ok"]
  /\ aiSummary' =
       IF ~loads[l].active THEN aiSummary
       ELSE IF json = ParseError THEN Str(<<>>)
       ELSE Coalesce(json.ai_summary, Str(<<>>))
  /\ loading' = IF loads[l].active THEN FALSE ELSE loading
  /\ UNCHANGED <<cveId, mounted, cveData, error>>

AssembleIdle ==
  /\ basicIn = Undefined /\ scoresIn = Undefined /\ viewOut = Undefined

SearchIdle ==
  /\ mode = "cve" /\ searchQuery = <<>> /\ searchResults = <<>>
  /\ showResults = FALSE /\ route = [view |-> "home"]
  /\ lastEvent = "none"
  /\ issued = [probe |-> <<>>, seen |-> [m \in {"cve", "keyword"} |-> {}], orders |-> {}]

Init == DetailInit /\ AssembleIdle /\ SearchIdle

Others == <<assembleVars, searchVars>>

Next ==
  \/ \E id \in Ids : useEffect(id) /\ UNCHANGED Others
  \/ unmount /\ UNCHANGED Others
  \/ \E l \in DOMAIN loads : \E r \in Responses(BasicBodies(loads[l].id)) :
       basicSettles(l, r) /\ UNCHANGED Others
  \/ \E l \in DOMAIN loads : \E r \in Responses(ScoresBodies(loads[l].id)) :
       scoresSettles(l, r) /\ UNCHANGED Others
  \/ \E l \in DOMAIN loads : joinResolved(l) /\ UNCHANGED Others
  \/ \E l \in DOMAIN loads : joinRejected(l) /\ UNCHANGED Others
  \/ \E l \in DOMAIN loads : \E r \in Responses({Undefined}) :
       aiFetchSettles(l, r) /\ UNCHANGED Others
  \/ \E l \in DOMAIN loads : \E j \in AiBodies(loads[l].id) \cup {ParseError} :
       aiJsonSettles(l, j) /\ UNCHANGED Others

Spec == Init /\ [][Next]_vars

---------------------------------------------------------------------------
\* Properties of the detail page

JoinFulfilled(ld) == ld.basic.st = "ok" /\ ld.scores.st = "ok"
JoinFailed(ld) == ld.basic.st = "failed" \/ ld.scores.st = "failed"

\* C1: a step taken by a load whose closure was already torn down
\* (active = false before the step) leaves cveData, aiSummary, error and
\* loading as they were, whichever completion it is.
C1_NoWriteAfterTeardown ==
  [][\A l \in DOMAIN loads :
       (~loads[l].active /\ loads'[l] # loads[l])
         => UNCHANGED <<cveData, aiSummary, error, loading>>]_vars

\* a torn-down load whose join was fulfilled after the teardown: it ended
\* without asking for the AI summary, which only the inactive branch does
C1_Witness ==
  \E l \in DOMAIN loads :
    /\ ~loads[l].active /\ loads[l].pc = "done"
    /\ JoinFulfilled(loads[l]) /\ loads[l].ai = "unsent"
    /\ cveData = Null

\* C2: when a load that is still active has finished with the basic-info
\* or the scores request failed, the page holds no view model and error is
\* the fixed message.
C2_FailedLoadLeavesNoViewModel ==
  \A l \in DOMAIN loads :
    (loads[l].active /\ loads[l].pc = "done" /\ JoinFailed(loads[l]))
      => (cveData = Null /\ error = Str(LoadErrorMessage))

\* C3: when an active load has finished with both required requests
\* fulfilled and the AI summary failed, aiSummary is empty, cveData is the
\* view model of that load's responses, error is null and loading is false.
C3_AiFailureIsAbsorbed ==
  \A l \in DOMAIN loads :
    (loads[l].active /\ loads[l].pc = "done" /\ JoinFulfilled(loads[l])
       /\ loads[l].ai = "failed")
      => /\ aiSummary = Str(<<>>)
         /\ cveData = buildViewModel(loads[l].basic.body, loads[l].scores.body)
         /\ error = Null
         /\ loading = FALSE

\* the second load's AI summary failed after the first load had shown one
C3_Witness ==
  /\ Len(loads) >= 2
  /\ loads[1].ai = "ok" /\ loads[1].pc = "done"
  /\ loads[2].active /\ loads[2].pc = "done" /\ JoinFulfilled(loads[2])
  /\ loads[2].ai = "failed"

\* C4: every step that changes cveData is the resumption of a load whose
\* basic-info and scores requests are both fulfilled, and writes the view
\* model of exactly those two responses.
C4_ViewModelOnlyAfterJoin ==
  [][cveData' # cveData =>
       \E l \in DOMAIN loads :
         /\ loads[l].pc = "join" /\ JoinFulfilled(loads[l])
         /\ cveData' = buildViewModel(loads[l].basic.body, loads[l].scores.body)]_vars

\* a view model is shown, and a later load has one response while the other
\* is pending
C4_Witness ==
  /\ Len(loads) >= 2
  /\ cveData # Null
  /\ loads[2].active /\ loads[2].pc = "join"
  /\ loads[2].scores.st = "ok" /\ loads[2].basic.st = "pending"

\* C5 as stated: the AI summary is asked for together with the other two,
\* so while a load waits for the join its AI request is already out.
C5_AiIssuedWithTheOthers ==
  \A l \in DOMAIN loads : loads[l].ai # "unsent"

\* C5 as amended: the AI summary of a load is asked for only after both its
\* basic-info and its scores request were fulfilled.
C5_AiIssuedAfterJoin ==
  \A l \in DOMAIN loads : loads[l].ai # "unsent" => JoinFulfilled(loads[l])

\* one load's AI request is in flight, and an earlier load ended on a
\* failed join without ever asking
C5_Witness ==
  /\ Len(loads) >= 2
  /\ loads[1].pc = "done" /\ JoinFailed(loads[1]) /\ loads[1].ai = "unsent"
  /\ loads[2].ai = "pending"

---------------------------------------------------------------------------
\* The view-model assembly as a function of the two response bodies

MaxSummaryLen == 2
MaxScore == 1

SummaryChars == {" ", "\t", "x"}
RECURSIVE StringsUpTo(_)
StringsUpTo(k) ==
  IF k = 0 THEN {<<>>}
  ELSE LET shorter == StringsUpTo(k - 1)
       IN shorter \cup {Append(w, c) : w \in shorter, c \in SummaryChars}

\* BasicResp: summary?: string | null
BasicInputs ==
  { [cve |-> Str(id), summary |-> sm] :
      id \in Ids,
      sm \in {Undefined, Null} \cup {Str(w) : w \in StringsUpTo(MaxSummaryLen)} }

\* a field of type number | null that may be missing (scores in tenths)
OptionalNumbers == {Undefined, Null} \cup {Num(k) : k \in 0..MaxScore}

\* ScoresResp: cvss: { base?: number }, epss?, kve?, activity?
ScoresInputs ==
  { [cve |-> Str(IdA), overall_score |-> Num(0), cvss |-> cv,
     epss |-> e, kve |-> k, activity |-> a] :
      cv \in {Undefined, Null} \cup {[t |-> "object", base |-> b] : b \in OptionalNumbers},
      e \in OptionalNumbers, k \in OptionalNumbers, a \in OptionalNumbers }

AssembleInit ==
  /\ basicIn \in BasicInputs
  /\ scoresIn \in ScoresInputs
  /\ viewOut = Undefined

assemble ==
  /\ viewOut = Undefined
  /\ viewOut' = buildViewModel(basicIn, scoresIn)
  /\ UNCHANGED <<basicIn, scoresIn>>

DetailIdle ==
  /\ cveId = IdA /\ mounted = FALSE /\ cveData = Null /\ aiSummary = Str(<<>>)
  /\ loading = TRUE /\ error = Null /\ loads = <<>>

InitAssemble == AssembleInit /\ DetailIdle /\ SearchIdle
NextAssemble == assemble /\ UNCHANGED <<detailVars, searchVars>>
SpecAssemble == InitAssemble /\ [][NextAssemble]_vars

\* the value the claim gives a numeric field: the source when it is a
\* number, 0 when it is null or missing
SourceOrZero(v) == IF v.t = "number" THEN v ELSE Num(0)

HasNonWhiteSpace(v) ==
  v.t = "string" /\ \E i \in 1..Len(v.s) : v.s[i] \notin WhiteSpace

\* C6: the four scores of the view model are the source values, or 0 where
\* the source is null or missing (a missing cvss object included); id is
\* basic.cve; title is basic.summary when it has a character that is not
\* white space and the placeholder otherwise.
C6_ViewModelFields ==
  viewOut # Undefined =>
    /\ viewOut.cvssScore =
         SourceOrZero(IF scoresIn.cvss.t = "object" THEN scoresIn.cvss.base ELSE Undefined)
    /\ viewOut.epssScore = SourceOrZero(scoresIn.epss)
    /\ viewOut.kveScore = SourceOrZero(scoresIn.kve)
    /\ viewOut.activityScore = SourceOrZero(scoresIn.activity)
    /\ viewOut.id = basicIn.cve
    /\ viewOut.title =
         IF HasNonWhiteSpace(basicIn.summary) THEN basicIn.summary
         ELSE Str(NoSummaryPlaceholder)

\* a view model built from a null epss, a missing cvss object, a present
\* kve and a summary of white space only
C6_Witness ==
  /\ viewOut # Undefined
  /\ scoresIn.epss = Null /\ scoresIn.cvss = Undefined /\ scoresIn.kve = Num(1)
  /\ scoresIn.activity = Num(0)
  /\ basicIn.summary = Str(<<" ", "\t">>)
  /\ viewOut.title = Str(NoSummaryPlaceholder)

---------------------------------------------------------------------------
\* SearchSection (components/search-section.tsx)

Modes == {"cve", "keyword"}

\* the mock catalogue
allCVEs ==
  <<
     [id |-> <<"C", "V", "E", "-", "2", "0", "2", "5", "-", "0", "0", "0", "1">>,
      title |-> <<"A", "p", "a", "c", "h", "e", " ", "L", "o", "g", "4", "j", " ", "Z", "e", "r", "o", "-", "D", "a", "y">>,
      year |-> 2025],
     [id |-> <<"C", "V", "E", "-", "2", "0", "2", "5", "-", "0", "0", "0", "2">>,
      title |-> <<"A", "p", "a", "c", "h", "e", " ", "S", "t", "r", "u", "t", "s", " ", "V", "u", "l", "n", "e", "r", "a", "b", "i", "l", "i", "t", "y">>,
      year |-> 2025],
     [id |-> <<"C", "V", "E", "-", "2", "0", "2", "5", "-", "0", "0", "0", "3">>,
      title |-> <<"W", "i", "n", "d", "o", "w", "s", " ", "K", "e", "r", "n", "e", "l", " ", "V", "u", "l", "n", "e", "r", "a", "b", "i", "l", "i", "t", "y">>,
      year |-> 2025],
     [id |-> <<"C", "V", "E", "-", "2", "0", "2", "5", "-", "0", "0", "0", "4">>,
      title |-> <<"S", "Q", "L", " ", "I", "n", "j", "e", "c", "t", "i", "o", "n", " ", "i", "n", " ", "C", "M", "S">>,
      year |-> 2025],
     [id |-> <<"C", "V", "E", "-", "2", "0", "2", "5", "-", "0", "0", "0", "5">>,
      title |-> <<"C", "M", "S", " ", "A", "u", "t", "h", "e", "n", "t", "i", "c", "a", "t", "i", "o", "n", " ", "B", "y", "p", "a", "s", "s">>,
      year |-> 2025],
     [id |-> <<"C", "V", "E", "-", "2", "0", "2", "5", "-", "0", "0", "0", "6">>,
      title |-> <<"C", "M", "S", " ", "R", "C", "E", " ", "V", "u", "l", "n", "e", "r", "a", "b", "i", "l", "i", "t", "y">>,
      year |-> 2025],
     [id |-> <<"C", "V", "E", "-", "2", "0", "2", "5", "-", "0", "0", "0", "7">>,
      title |-> <<"O", "p", "e", "n", "S", "S", "L", " ", "R", "e", "m", "o", "t", "e", " ", "C", "o", "d", "e", " ", "E", "x", "e", "c", "u", "t", "i", "o", "n">>,
      year |-> 2025],
     [id |-> <<"C", "V", "E", "-", "2", "0", "2", "5", "-", "0", "0", "0", "8">>,
      title |-> <<"V", "P", "N", " ", "A", "u", "t", "h", "e", "n", "t", "i", "c", "a", "t", "i", "o", "n", " ", "B", "y", "p", "a", "s", "s">>,
      year |-> 2025],
     [id |-> <<"C", "V", "E", "-", "2", "0", "2", "5", "-", "0", "0", "0", "9">>,
      title |-> <<"V", "P", "N", " ", "E", "n", "c", "r", "y", "p", "t", "i", "o", "n", " ", "F", "l", "a", "w">>,
      year |-> 2025],
     [id |-> <<"C", "V", "E", "-", "2", "0", "2", "4", "-", "1", "0", "0", "1">>,
      title |-> <<"D", "a", "t", "a", "b", "a", "s", "e", " ", "V", "u", "l", "n", "e", "r", "a", "b", "i", "l", "i", "t", "y">>,
      year |-> 2024],
     [id |-> <<"C", "V", "E", "-", "2", "0", "2", "4", "-", "1", "0", "0", "2">>,
      title |-> <<"C", "o", "n", "t", "a", "i", "n", "e", "r", " ", "E", "s", "c", "a", "p", "e">>,
      year |-> 2024],
     [id |-> <<"C", "V", "E", "-", "2", "0", "2", "3", "-", "5", "0", "0", "1">>,
      title |-> <<"B", "r", "o", "w", "s", "e", "r", " ", "X", "S", "S">>,
      year |-> 2023]
  >>

\* String.prototype.toLowerCase on the letters the catalogue and the
\* queries use
UpperToLower ==
  ("A" :> "a") @@ ("B" :> "b") @@ ("C" :> "c") @@ ("D" :> "d") @@ ("E" :> "e") @@ ("F" :> "f") @@
  ("G" :> "g") @@ ("H" :> "h") @@ ("I" :> "i") @@ ("J" :> "j") @@ ("K" :> "k") @@ ("L" :> "l") @@
  ("M" :> "m") @@ ("N" :> "n") @@ ("O" :> "o") @@ ("P" :> "p") @@ ("Q" :> "q") @@ ("R" :> "r") @@
  ("S" :> "s") @@ ("T" :> "t") @@ ("U" :> "u") @@ ("V" :> "v") @@ ("W" :> "w") @@ ("X" :> "x") @@
  ("Y" :> "y") @@ ("Z" :> "z")

toLowerCase(chars) ==
  [i \in 1..Len(chars) |->
     IF chars[i] \in DOMAIN UpperToLower THEN UpperToLower[chars[i]] ELSE chars[i]]

\* String.prototype.includes
includes(text, part) ==
  \E i \in 0..(Len(text) - Len(part)) : SubSeq(text, i + 1, i + Len(part)) = part

\* what the user may type
Queries ==
  {
    <<>>,
    <<" ">>,
    <<"2", "0", "2", "5">>,
    <<"c", "v", "e", "-", "2", "0", "2", "5", "-", "0", "0", "0", "1">>,
    <<"C", "M", "S">>,
    <<"L", "o", "g", "4", "j">>,
    <<"-">>
  }

\* the results handleSearch computes for a query that is not blank
\* (Array.prototype.filter is SelectSeq: it keeps the order of the array)
filterCVEs_caseSensitive(query, m) ==
  LET lowerQuery == toLowerCase(query)
      byId(cve) == includes(cve.id, lowerQuery)
      byTitle(cve) == includes(cve.title, lowerQuery)
  IN IF m = "cve" THEN SelectSeq(allCVEs, byId) ELSE SelectSeq(allCVEs, byTitle)

filterCVEs(query, m) ==
  LET lowerQuery == toLowerCase(query)
      byId(cve) == includes(toLowerCase(cve.id), lowerQuery)
      byTitle(cve) == includes(toLowerCase(cve.title), lowerQuery)
  IN IF m = "cve" THEN SelectSeq(allCVEs, byId) ELSE SelectSeq(allCVEs, byTitle)

Blank(chars) == Trim(chars) = <<>>

Other(m) == IF m = "cve" THEN "keyword" ELSE "cve"

\* history only: the results computed for the probe query are remembered
noted(query, m, results) ==
  IF query # issued.probe THEN issued
  ELSE [issued EXCEPT
          !.seen[m] = @ \cup {results},
          !.orders = @ \cup (IF issued.seen[Other(m)] # {} THEN {<<Other(m), m>>} ELSE {})]

SearchInit ==
  /\ mode = "cve"
  /\ searchQuery = <<>>
  /\ searchResults = <<>>
  /\ showResults = FALSE
  /\ route = [view |-> "home"]
  /\ lastEvent = "none"
  /\ issued \in { [probe |-> q, seen |-> [m \in Modes |-> {}], orders |-> {}] :
                    q \in {w \in Queries : ~Blank(w)} }

\* onChange of the input: it fires when the text changed
handleSearch_append(query) ==
  /\ query # searchQuery
  /\ searchQuery' = query
  /\ IF Blank(query)
       THEN /\ searchResults' = <<>>
            /\ showResults' = FALSE
            /\ UNCHANGED issued
       ELSE LET results == searchResults \o filterCVEs(query, mode)
            IN /\ searchResults' = results
               /\ showResults' = TRUE
               /\ issued' = noted(query, mode, results)
  /\ lastEvent' = "change"
  /\ UNCHANGED <<mode, route>>

handleSearch(query) ==
  /\ query # searchQuery
  /\ searchQuery' = query
  /\ IF Blank(query)
       THEN /\ searchResults' = <<>>
            /\ showResults' = FALSE
            /\ UNCHANGED issued
       ELSE LET results == filterCVEs(query, mode)
            IN /\ searchResults' = results
               /\ showResults' = TRUE
               /\ issued' = noted(query, mode, results)
  /\ lastEvent' = "change"
  /\ UNCHANGED <<mode, route>>

\* the mode buttons: onClick={() => setMode(...)}
setMode(m) ==
  /\ mode' = m
  /\ lastEvent' = "mode"
  /\ UNCHANGED <<searchQuery, searchResults, showResults, route, issued>>

\* onFocus={() => searchQuery && setShowResults(true)}
onFocus ==
  /\ showResults' = IF searchQuery # <<>> THEN TRUE ELSE showResults
  /\ lastEvent' = "focus"
  /\ UNCHANGED <<mode, searchQuery, searchResults, route, issued>>

\* the two panels under the input
ResultListShown == showResults /\ Len(searchResults) > 0
NoMatchShown == showResults /\ Len(searchResults) = 0 /\ searchQuery # <<>>

\* onClick of an entry of the result list
handleResultClick(cve) ==
  /\ ResultListShown
  /\ \E i \in 1..Len(searchResults) : searchResults[i].id = cve
  /\ searchQuery' = cve
  /\ showResults' = FALSE
  /\ route' = [view |-> "detail", id |-> cve]
  /\ lastEvent' = "click"
  /\ UNCHANGED <<mode, searchResults, issued>>

\* the Enter key in the input: the Input is given onChange and onFocus
\* only and stands in no form, so no handler runs
keyEnter ==
  /\ lastEvent' = "enter"
  /\ UNCHANGED <<mode, searchQuery, searchResults, showResults, route, issued>>

InitSearch == SearchInit /\ DetailIdle /\ AssembleIdle

NextSearch ==
  \/ \E q \in Queries : handleSearch(q) /\ UNCHANGED <<detailVars, assembleVars>>
  \/ \E m \in Modes : setMode(m) /\ UNCHANGED <<detailVars, assembleVars>>
  \/ onFocus /\ UNCHANGED <<detailVars, assembleVars>>
  \/ \E i \in 1..Len(allCVEs) :
       handleResultClick(allCVEs[i].id) /\ UNCHANGED <<detailVars, assembleVars>>
  \/ keyEnter /\ UNCHANGED <<detailVars, assembleVars>>

SpecSearch == InitSearch /\ [][NextSearch]_vars

---------------------------------------------------------------------------
\* Properties of the search component

\* C7: while the text of the input is empty or white space only, the
\* result set is empty and neither the result list nor the no-match panel
\* is shown, whatever focus, mode and selection events were handled since.
C7_BlankInputStaysIdle ==
  Blank(searchQuery) =>
    (searchResults = <<>> /\ ~ResultListShown /\ ~NoMatchShown)

\* C8: the result sets computed for one query under one mode are all the
\* same, whatever was computed before under the other mode: the results
\* depend on the query text and the mode of the moment only.
C8_ResultsDependOnQueryAndMode ==
  \A m \in Modes : Cardinality(issued.seen[m]) <= 1

\* the query was issued again after a switch in both orders, cve to
\* keyword and keyword to cve, and the two modes gave different results
C8_Witness ==
  /\ issued.orders = {<<"cve", "keyword">>, <<"keyword", "cve">>}
  /\ issued.seen["cve"] # {} /\ issued.seen["keyword"] # {}
  /\ issued.seen["cve"] # issued.seen["keyword"]
  /\ \E r \in issued.seen["cve"] : r # <<>>
  /\ \E r \in issued.seen["keyword"] : r # <<>>

SameLetter(a, b) ==
  \/ a = b
  \/ a \in DOMAIN UpperToLower /\ UpperToLower[a] = b
  \/ b \in DOMAIN UpperToLower /\ UpperToLower[b] = a

\* part occurs in text, letters compared without regard to case
ContainsIgnoringCase(text, part) ==
  \E i \in 0..(Len(text) - Len(part)) :
    \A k \in 1..Len(part) : SameLetter(text[i + k], part[k])

Matches(cve, query, m) ==
  IF m = "cve" THEN ContainsIgnoringCase(cve.id, query)
  ELSE ContainsIgnoringCase(cve.title, query)

\* where an entry stands in the catalogue
CatalogueIndex(cve) == {c \in 1..Len(allCVEs) : allCVEs[c] = cve}

\* C9: right after an input change to a query with a character that is not
\* white space, the result set holds exactly the catalogue entries that
\* match under the mode, each once and in catalogue order; the result list
\* is shown when there is one and the no-match panel when there is none.
C9_ResultsAreTheMatches ==
  (lastEvent = "change" /\ ~Blank(searchQuery)) =>
    /\ \A i \in 1..Len(searchResults) : CatalogueIndex(searchResults[i]) # {}
    /\ \A i, j \in 1..Len(searchResults) :
         i < j => \A a \in CatalogueIndex(searchResults[i]) :
                    \A b \in CatalogueIndex(searchResults[j]) : a < b
    /\ \A i \in 1..Len(searchResults) : Matches(searchResults[i], searchQuery, mode)
    /\ \A c \in 1..Len(allCVEs) :
         Matches(allCVEs[c], searchQuery, mode)
           => \E i \in 1..Len(searchResults) : searchResults[i] = allCVEs[c]
    /\ Len(searchResults) > 0 => (ResultListShown /\ ~NoMatchShown)
    /\ Len(searchResults) = 0 => (NoMatchShown /\ ~ResultListShown)

\* a lower-case identifier typed in cve mode found its entry
C9_Witness ==
  /\ lastEvent = "change"
  /\ mode = "cve"
  /\ searchQuery = <<"c", "v", "e", "-", "2", "0", "2", "5", "-", "0", "0", "0", "1">>
  /\ Len(searchResults) = 1
  /\ ResultListShown

\* C10: after the Enter key in an input that holds a text, the route is
\* the detail view of exactly that text in cve mode, and the search-results
\* view with the text as its query in keyword mode.
C10_EnterNavigates ==
  (lastEvent = "enter" /\ ~Blank(searchQuery)) =>
    route = IF mode = "cve" THEN [view |-> "detail", id |-> searchQuery]
            ELSE [view |-> "search", q |-> searchQuery]

---------------------------------------------------------------------------
\* Properties of the state the two components hold between events

\* C11: when the page holds a view model, the AI summary in state is empty
\* or the summary returned for the identifier of that view model.
C11_SummaryBelongsToViewModel ==
  (cveData # Null /\ aiSummary # Str(<<>>)) => aiSummary = Str(AiText(cveData.id.s))

\* C12: whenever a results panel is shown (the result list or the no-match
\* panel), the result set in state is the catalogue filtered by the text of
\* the input under the mode selected now.
C12_ShownResultsAreCurrent ==
  (ResultListShown \/ NoMatchShown) =>
    searchResults = (IF Blank(searchQuery) THEN <<>> ELSE filterCVEs(searchQuery, mode))

---------------------------------------------------------------------------
\* The detail page when every request settles

\* a request settles, or load() resumes after a settled await
Settle ==
  \/ \E l \in DOMAIN loads : \E r \in Responses(BasicBodies(loads[l].id)) :
       basicSettles(l, r) /\ UNCHANGED Others
  \/ \E l \in DOMAIN loads : \E r \in Responses(ScoresBodies(loads[l].id)) :
       scoresSettles(l, r) /\ UNCHANGED Others
  \/ \E l \in DOMAIN loads : joinResolved(l) /\ UNCHANGED Others
  \/ \E l \in DOMAIN loads : joinRejected(l) /\ UNCHANGED Others
  \/ \E l \in DOMAIN loads : \E r \in Responses({Undefined}) :
       aiFetchSettles(l, r) /\ UNCHANGED Others
  \/ \E l \in DOMAIN loads : \E j \in AiBodies(loads[l].id) \cup {ParseError} :
       aiJsonSettles(l, j) /\ UNCHANGED Others

\* No request stays in flight for ever and the event loop resumes load()
\* after a settled await; identifier changes and navigation may or may not
\* happen.
SpecLive == Init /\ [][Next]_vars /\ WF_vars(Settle)

AiInFlight(ld) == ld.ai \in {"pending", "body"}
RequestInFlight(ld) ==
  ld.basic.st = "pending" \/ ld.scores.st = "pending" \/ AiInFlight(ld)

\* C13 as stated, its safety part: while the load of the current
\* identifier is active, loading is false only when none of the requests
\* that load issued is still in flight.
C13_LoadingFalseOnlyAfterAllSettled ==
  \A l \in DOMAIN loads :
    (loads[l].active /\ ~loading) => ~RequestInFlight(loads[l])

\* a settled request is not issued again, and the AI summary is asked for
\* once
NoRetry ==
  \A l \in DOMAIN loads :
    /\ loads[l].basic.st # "pending" => loads'[l].basic = loads[l].basic
    /\ loads[l].scores.st # "pending" => loads'[l].scores = loads[l].scores
    /\ loads[l].ai # "unsent" => loads'[l].ai # "unsent"
    /\ (loads[l].ai # "unsent" /\ loads'[l].ai = "pending") => loads[l].ai = "pending"

\* C13 as amended: a load that stays active ends with loading false; loading
\* is false under an active load only when load() has run to its end, that
\* is after the join has settled (both fulfilled, or one failed while the
\* other may still be in flight) and no AI-summary request is in flight; and
\* no request is issued twice.
C13_LoadingEndsWithTheLoad ==
  /\ [](\A l \in DOMAIN loads :
         (loads[l].active /\ ~loading) =>
           /\ loads[l].pc = "done"
           /\ JoinFulfilled(loads[l]) \/ JoinFailed(loads[l])
           /\ ~AiInFlight(loads[l]))
  /\ [][NoRetry]_vars
  /\ \A l \in 1..MaxLoads :
       (l \in DOMAIN loads /\ loads[l].active)
         ~> (l \in DOMAIN loads /\ (~loads[l].active \/ (~loading /\ loads[l].pc = "done")))

\* the first load ended on a failed request while its other request was
\* still in flight; the second load has set its view model and waits for
\* the AI summary with loading still true
C13_Witness ==
  /\ Len(loads) >= 2
  /\ loads[1].pc = "done" /\ JoinFailed(loads[1]) /\ RequestInFlight(loads[1])
  /\ loads[2].active /\ loads[2].ai = "pending"
  /\ cveData = buildViewModel(loads[2].basic.body, loads[2].scores.body)
  /\ loading = TRUE

===========================================================================
